---- MODULE Spec2Model ----
(***************************************************************************)
(* Model of misc/analyze_gas_results.py: the gas benchmark analysis batch  *)
(* pipeline (load -> statistics -> per-row analysis -> two regression fits *)
(* -> visualization -> estimator code generation) and its exit status.    *)
(*                                                                         *)
(* Conventions                                                             *)
(*  - A Python string that the code inspects with startswith/replace is a  *)
(*    sequence of chunks, the chunk "Op_" being the substring 'Op_': the    *)
(*    label 'Op_SUM' is <<"Op_", "SUM">>, the column 'Op_SUM' built by      *)
(*    get_dummies from the label 'SUM' is <<"Op_">> \o <<"SUM">>.           *)
(*  - A float is an integer count of 1/Scale units (Scale = 10: tenths).   *)
(*  - A possibly missing number (pandas NaN) is <<>>, a present one <<n>>. *)
(*  - The numbers the library computes from the measurements (the fitted   *)
(*    intercept and coefficients, R2, MAPE) and the outcome of writing a    *)
(*    file are inputs, drawn from small sets.                               *)
(***************************************************************************)
EXTENDS Integers, Sequences, FiniteSets, TLC

(* ------------------------------ bounds -------------------------------- *)

\* Largest number of data rows of an input table.
MaxRecords == 2

\* Units per 1.0 of a modelled float.
Scale == 10

\* Largest value of rows, columns and filterBytes the emitted estimator is
\* evaluated on.
MaxArg == 1

(* ------------------------- program constants -------------------------- *)

\* r2 >= 0.60, in hundredths.
R2Target == 60

\* mape <= 40, in percent.
MapeTarget == 40

(* ------------------------------ strings ------------------------------- *)

Str(s) == <<s>>

\* s.startswith('Op_')
StartsWithOp(s) == Len(s) > 0 /\ s[1] = "Op_"

IsNotOpChunk(c) == c # "Op_"

\* s.replace('Op_', ''): every occurrence is removed, not only the prefix.
ReplaceOp(s) == SelectSeq(s, IsNotOpChunk)

\* pd.get_dummies(..., prefix='Op') names the column of a label.
DummyName(label) == <<"Op_">> \o label

(* ------------------------------ floats -------------------------------- *)

\* Python's format spec ':.0f': the nearest integer, ties to even.
Fmt0(x) ==
    LET q == x \div Scale
        r == x % Scale
    IN  IF 2 * r < Scale THEN q
        ELSE IF 2 * r > Scale THEN q + 1
        ELSE IF q % 2 = 0 THEN q ELSE q + 1

\* JavaScript's Math.round: the nearest integer, ties towards +infinity.
MathRound(x) == (2 * x + Scale) \div (2 * Scale)

(* --------------------------- the input file --------------------------- *)

KnownOperations ==
    <<Str("COUNT"), Str("SUM"), Str("AVG_P"), Str("WEIGHTED_SUM"), Str("MIN"), Str("MAX")>>

\* The Operation labels of the modelled inputs, in the order in which
\* get_dummies sorts them ('COUNT' < 'Op_SUM' < 'SUM').
OperationLabels == <<Str("COUNT"), <<"Op_", "SUM">>, Str("SUM")>>

\* The FilterComplexity labels of the modelled inputs of the whole pipeline
\* and of the loader alone; "bogus" is a label the lookup does not know.
PipelineFilterLabels == {"simple", "bogus"}
LoaderFilterLabels == {"none", "simple", "medium", "complex", "bogus"}

RowsVals == {2}
ColumnsVals == {3}

AllColumns ==
    {"Operation", "FilterComplexity", "Rows", "Columns", "OpenJobGas",
     "PushRowTotal", "PushRowAvg", "FinalizeGas", "TotalGas"}

Range(s) == {s[i] : i \in 1..Len(s)}

SeqsUpTo(S, n) == UNION {[1..k -> S] : k \in 0..n}

CsvRecords(ops, filters) ==
    [Operation : ops, FilterComplexity : filters, Rows : RowsVals, Columns : ColumnsVals]

\* The files a run can be pointed at: no file, a file pandas cannot parse,
\* a header-only table lacking one column, or a full table of data rows.
CsvFiles(ops, filters) ==
    {[exists |-> FALSE, parses |-> FALSE, columns |-> {}, rows |-> <<>>],
     [exists |-> TRUE, parses |-> FALSE, columns |-> {}, rows |-> <<>>]}
    \cup {[exists |-> TRUE, parses |-> TRUE, columns |-> AllColumns \ {c}, rows |-> <<>>] :
            c \in {"FilterComplexity", "TotalGas", "PushRowAvg"}}
    \cup {[exists |-> TRUE, parses |-> TRUE, columns |-> AllColumns, rows |-> t] :
            t \in SeqsUpTo(CsvRecords(ops, filters), MaxRecords)}

(* ------------------------- results of a call -------------------------- *)

NoFrame == [columns |-> {}, rows |-> <<>>]
NoModel == [fitted |-> FALSE, intercept |-> 0, coef |-> <<>>]
NoPrint == [section |-> "", r2 |-> "", mape |-> ""]

Raise(exc) ==
    [raised |-> exc, df |-> NoFrame, model |-> NoModel, y_pred |-> <<>>,
     coef_df |-> <<>>, printed |-> NoPrint, code |-> <<>>, wrote |-> FALSE]

Return(printed) ==
    [raised |-> "none", df |-> NoFrame, model |-> NoModel, y_pred |-> <<>>,
     coef_df |-> <<>>, printed |-> printed, code |-> <<>>, wrote |-> FALSE]

(* ------------------------------ Loader -------------------------------- *)

\* A slip in the table: two values exchanged.
filter_bytecode_map_swapped == [none |-> 0, simple |-> 15, medium |-> 7, complex |-> 30]

filter_bytecode_map == [none |-> 0, simple |-> 7, medium |-> 15, complex |-> 30]

\* Series.map(dict): a label that is no key of the dict maps to NaN.
MapLabel(m, label) == IF label \in DOMAIN m THEN <<m[label]>> ELSE <<>>

WithFilterBytes(rec) ==
    [Operation |-> rec.Operation, FilterComplexity |-> rec.FilterComplexity,
     Rows |-> rec.Rows, Columns |-> rec.Columns,
     FilterBytes |-> MapLabel(filter_bytecode_map, rec.FilterComplexity)]

load_and_prepare_data(file) ==
    IF ~file.exists THEN Raise("FileNotFoundError")
    ELSE IF ~file.parses THEN Raise("ParserError")
    ELSE IF "FilterComplexity" \notin file.columns THEN Raise("KeyError")
    ELSE [Return([section |-> "Loading data", r2 |-> "", mape |-> ""]) EXCEPT
            !.df = [columns |-> file.columns \cup {"FilterBytes"},
                    rows |-> [i \in 1..Len(file.rows) |-> WithFilterBytes(file.rows[i])]]]

(* ------------------------ Descriptive Reporter ------------------------ *)

analyze_basic_statistics(df) ==
    IF {"Operation", "TotalGas", "FilterComplexity", "OpenJobGas", "PushRowTotal",
        "FinalizeGas"} \subseteq df.columns
    THEN Return([section |-> "Basic Statistics", r2 |-> "", mape |-> ""])
    ELSE Raise("KeyError")

\* The index of df.groupby('Operation'): the labels that occur.
OperationsOf(df) == {df.rows[i].Operation : i \in 1..Len(df.rows)}

\* The baseline read without the lookup that raises (a default instead).
analyze_per_row_costs_default_baseline(df) ==
    IF ~({"Operation", "PushRowAvg"} \subseteq df.columns) THEN Raise("KeyError")
    ELSE Return([section |-> "Per-Row Cost Analysis", r2 |-> "", mape |-> ""])

analyze_per_row_costs(df) ==
    IF ~({"Operation", "PushRowAvg"} \subseteq df.columns) THEN Raise("KeyError")
    ELSE IF Str("COUNT") \notin OperationsOf(df) THEN Raise("KeyError")
    ELSE Return([section |-> "Per-Row Cost Analysis", r2 |-> "", mape |-> ""])

(* -------------------------- Regression Fitter -------------------------- *)

\* pd.get_dummies(df['Operation'], prefix='Op'): one column per label that
\* occurs, in sorted order.
IsOperationIn(df, label) == label \in OperationsOf(df)

OperationDummies(df) ==
    LET present == SelectSeq(OperationLabels, LAMBDA l : IsOperationIn(df, l))
    IN  [i \in 1..Len(present) |-> DummyName(present[i])]

\* The columns of X when neither the drop nor the column selection raises.
FeatureColumns(df, include_interaction) ==
    <<Str("Rows"), Str("Columns"), Str("FilterBytes")>>
    \o (IF include_interaction THEN <<Str("Rows_x_Columns")>> ELSE <<>>)
    \o SelectSeq(OperationDummies(df), LAMBDA c : c # DummyName(Str("COUNT")))

\* The value of column f of X in one row (FilterBytes is not NaN).
FeatureValue(rec, f) ==
    IF f = Str("Rows") THEN rec.Rows
    ELSE IF f = Str("Columns") THEN rec.Columns
    ELSE IF f = Str("FilterBytes") THEN rec.FilterBytes[1]
    ELSE IF f = Str("Rows_x_Columns") THEN rec.Rows * rec.Columns
    ELSE IF f = DummyName(rec.Operation) THEN 1 ELSE 0

RECURSIVE LinearTerms(_, _, _, _)
LinearTerms(coef, X, rec, k) ==
    IF k = 0 THEN 0
    ELSE coef[X[k]] * FeatureValue(rec, X[k]) + LinearTerms(coef, X, rec, k - 1)

\* model.predict(X)
Predict(intercept, coef, X, df) ==
    [i \in 1..Len(df.rows) |-> intercept + LinearTerms(coef, X, df.rows[i], Len(X))]

\* DataFrame.sort_values('Coefficient', ascending=False); rows of equal
\* coefficient keep the order of X.columns. Row i goes to the place after
\* the rows that sort before it.
PlaceDesc(rows, i) ==
    1 + Cardinality({j \in 1..Len(rows) :
                        \/ rows[j].Coefficient > rows[i].Coefficient
                        \/ rows[j].Coefficient = rows[i].Coefficient /\ j < i})

SortedDesc(rows) ==
    [p \in 1..Len(rows) |-> rows[CHOOSE i \in 1..Len(rows) : PlaceDesc(rows, i) = p]]

\* (rows is evaluated once, by binding it.)
SortDesc(rows) == CHOOSE s \in {SortedDesc(rs) : rs \in {rows}} : TRUE

CoefTable(X, coef) ==
    SortDesc([i \in 1..Len(X) |-> [Feature |-> X[i], Coefficient |-> coef[X[i]]]])

HasNaN(df) == \E i \in 1..Len(df.rows) : df.rows[i].FilterBytes = <<>>

\* What the comparison with a target prints.
R2Line(r2) == IF r2 >= R2Target THEN "meets" ELSE "below"
MapeLine(mape) == IF mape <= MapeTarget THEN "meets" ELSE "above"

\* A fitter that rejects a model below its targets instead of reporting it.
build_regression_model_rejecting(df, target, include_interaction, lib) ==
    LET X == FeatureColumns(df, include_interaction)
    IN  IF ~({"Rows", "Columns", "FilterBytes", "Operation"} \subseteq df.columns)
        THEN Raise("KeyError")
        ELSE IF DummyName(Str("COUNT")) \notin Range(OperationDummies(df))
        THEN Raise("KeyError")
        ELSE IF target \notin df.columns THEN Raise("KeyError")
        ELSE IF HasNaN(df) THEN Raise("ValueError")
        ELSE IF lib.r2 < R2Target \/ lib.mape > MapeTarget THEN Raise("ValueError")
        ELSE [Return([section |-> "Building Regression Model",
                      r2 |-> R2Line(lib.r2), mape |-> MapeLine(lib.mape)]) EXCEPT
                !.model = [fitted |-> TRUE, intercept |-> lib.intercept,
                           coef |-> [f \in Range(X) |-> lib.coef[f]]],
                !.y_pred = Predict(lib.intercept, lib.coef, X, df),
                !.coef_df = CoefTable(X, lib.coef)]

\* lib: what LinearRegression.fit and the metrics compute from the data,
\* [intercept, coef (one per column of X), r2, mape].
build_regression_model(df, target, include_interaction, lib) ==
    LET X == FeatureColumns(df, include_interaction)
    IN  IF ~({"Rows", "Columns", "FilterBytes", "Operation"} \subseteq df.columns)
        THEN Raise("KeyError")
        ELSE IF DummyName(Str("COUNT")) \notin Range(OperationDummies(df))
        THEN Raise("KeyError")
        ELSE IF target \notin df.columns THEN Raise("KeyError")
        ELSE IF HasNaN(df) THEN Raise("ValueError")
        ELSE [Return([section |-> "Building Regression Model",
                      r2 |-> R2Line(lib.r2), mape |-> MapeLine(lib.mape)]) EXCEPT
                !.model = [fitted |-> TRUE, intercept |-> lib.intercept,
                           coef |-> [f \in Range(X) |-> lib.coef[f]]],
                !.y_pred = Predict(lib.intercept, lib.coef, X, df),
                !.coef_df = CoefTable(X, lib.coef)]

\* The fitted values and metrics the library may compute for a table.
CoefVals == {5, 14}
R2Vals == {R2Target - 1, R2Target}
MapeVals == {MapeTarget, MapeTarget + 1}

LibOutcomes(df, include_interaction) ==
    [intercept : CoefVals,
     coef : [Range(FeatureColumns(df, include_interaction)) -> CoefVals],
     r2 : R2Vals, mape : MapeVals]

\* The outcomes drawn for a fit whose fitted values main() drops: every
\* pair of metrics, with one representative of the fitted values.
LeastCoefVal == CHOOSE v \in CoefVals : \A w \in CoefVals : v <= w

DroppedFitOutcomes(df, include_interaction) ==
    [intercept : {LeastCoefVal},
     coef : [Range(FeatureColumns(df, include_interaction)) -> {LeastCoefVal}],
     r2 : R2Vals, mape : MapeVals]

(* ----------------------------- Visualizer ----------------------------- *)

\* io: the outcome of plt.savefig writing gas_analysis.png.
IoOutcomes == {"ok", "PermissionError", "FileNotFoundError"}

visualize_results(df, y_pred, coef_df, io) ==
    IF ~({"TotalGas", "Operation", "Rows"} \subseteq df.columns) THEN Raise("KeyError")
    ELSE IF io # "ok" THEN Raise(io)
    ELSE [Return([section |-> "Generating Visualizations", r2 |-> "", mape |-> ""])
            EXCEPT !.wrote = TRUE]

(* --------------------------- Code Generator --------------------------- *)

\* One line of the emitted text: fixed text, an optional formatted number,
\* and the fixed text after it.
L(text) == [text |-> text, num |-> <<>>, tail |-> ""]
N(text, n, tail) == [text |-> text, num |-> <<n>>, tail |-> tail]

IsFeature(coef_df, name) == \E i \in 1..Len(coef_df) : coef_df[i].Feature = name

\* coef_df[coef_df['Feature'] == name]['Coefficient'].values[0] if name in
\* coef_df['Feature'].values else 0
CoefficientOf(coef_df, name) ==
    IF IsFeature(coef_df, name)
    THEN coef_df[CHOOSE i \in 1..Len(coef_df) :
                    /\ coef_df[i].Feature = name
                    /\ \A j \in 1..(i - 1) : coef_df[j].Feature # name].Coefficient
    ELSE 0

\* The rows whose feature starts with 'Op_' and, the prefix replaced away,
\* is op_name: the row iterated last is the one op_coefs keeps.
OpRows(coef_df, op_name) ==
    {i \in 1..Len(coef_df) :
        StartsWithOp(coef_df[i].Feature) /\ ReplaceOp(coef_df[i].Feature) = op_name}

\* op_coefs.get(op_name, 0)
OpCoefsGet(coef_df, op_name) ==
    LET rows == OpRows(coef_df, op_name)
    IN  IF rows = {} THEN 0
        ELSE coef_df[CHOOSE i \in rows : \A j \in rows : j <= i].Coefficient

DocHead ==
    <<L("/**"),
      L(" * Estimates gas cost for a JobManager job based on parameters"),
      L(" * "),
      L(" * Model Accuracy: See analysis output for R2 and MAPE")>>

DocParams ==
    <<L(" * "),
      L(" * @param rows Number of rows in dataset"),
      L(" * @param columns Number of columns in dataset"),
      L(" * @param operation Operation type"),
      L(" * @param filterBytes Approximate filter bytecode length"),
      L(" * @returns Estimated total gas cost"),
      L(" */"),
      L("function estimateJobGas("),
      L("  rows: number,"),
      L("  columns: number,"),
      L("  operation: 'COUNT' | 'SUM' | 'AVG_P' | 'WEIGHTED_SUM' | 'MIN' | 'MAX',"),
      L("  filterBytes: number"),
      L("): number {"),
      L("  // Base cost (intercept)")>>

FilterAndOperations(filter_coef, coef_df) ==
    <<L("  // Add filter complexity cost"),
      N("  gas += filterBytes * ", Fmt0(filter_coef), ";"),
      L("  // Add operation-specific costs (relative to COUNT baseline)"),
      L("  const operationCosts = {"),
      N("    'COUNT': ", 0, ",  // baseline"),
      N("    'SUM': ", Fmt0(OpCoefsGet(coef_df, Str("SUM"))), ","),
      N("    'AVG_P': ", Fmt0(OpCoefsGet(coef_df, Str("AVG_P"))), ","),
      N("    'WEIGHTED_SUM': ", Fmt0(OpCoefsGet(coef_df, Str("WEIGHTED_SUM"))), ","),
      N("    'MIN': ", Fmt0(OpCoefsGet(coef_df, Str("MIN"))), ","),
      N("    'MAX': ", Fmt0(OpCoefsGet(coef_df, Str("MAX"))), ","),
      L("  };"),
      L("  gas += operationCosts[operation];"),
      L("  return Math.round(gas);"),
      L("}"),
      L("// Example usage:"),
      L("const estimatedGas = estimateJobGas(50, 15, 'SUM', 7);"),
      L("console.log(Estimated gas: estimatedGas.toLocaleString());")>>

\* The template chosen by a feature every model has.
HasInteraction_by_rows(coef_df) == IsFeature(coef_df, Str("Rows"))

\* Whether the template with the interaction line is the one rendered.
HasInteraction(coef_df) == IsFeature(coef_df, Str("Rows_x_Columns"))

\* The text of estimateJobGas.ts (blank lines, and the template literal's
\* quoting in the last line, left out).
EstimatorCode(model, coef_df) ==
    LET intercept == model.intercept
        row_coef == CoefficientOf(coef_df, Str("Rows"))
        col_coef == CoefficientOf(coef_df, Str("Columns"))
        filter_coef == CoefficientOf(coef_df, Str("FilterBytes"))
        interaction_coef ==
            IF HasInteraction(coef_df) THEN CoefficientOf(coef_df, Str("Rows_x_Columns"))
            ELSE 0
    IN  IF HasInteraction(coef_df)
        THEN DocHead
             \o <<L(" * Model includes Rows x Columns interaction term for better accuracy")>>
             \o DocParams
             \o <<N("  let gas = ", Fmt0(intercept), ";"),
                  L("  // Add per-row cost"),
                  N("  gas += rows * ", Fmt0(row_coef), ";"),
                  L("  // Add per-column cost"),
                  N("  gas += columns * ", Fmt0(col_coef), ";"),
                  L("  // Add row x column interaction (decoding cost scales with both)"),
                  N("  gas += (rows * columns) * ", Fmt0(interaction_coef), ";")>>
             \o FilterAndOperations(filter_coef, coef_df)
        ELSE DocHead
             \o DocParams
             \o <<N("  let gas = ", Fmt0(intercept), ";"),
                  L("  // Add per-row cost"),
                  N("  gas += rows * ", Fmt0(row_coef), ";"),
                  L("  // Add per-column cost (decoding)"),
                  N("  gas += columns * ", Fmt0(col_coef), ";")>>
             \o FilterAndOperations(filter_coef, coef_df)

\* io: the outcome of open('estimateJobGas.ts', 'w').
generate_estimator_code(model, coef_df, io) ==
    IF io # "ok" THEN Raise(io)
    ELSE [Return([section |-> "Gas Estimator Function (TypeScript)", r2 |-> "", mape |-> ""])
            EXCEPT !.code = EstimatorCode(model, coef_df), !.wrote = TRUE]

(* ----------------- the emitted function, as it evaluates --------------- *)

HasLine(code, text) == \E i \in 1..Len(code) : code[i].text = text

NumAt(code, text) == code[CHOOSE i \in 1..Len(code) : code[i].text = text].num[1]

OperationKey(operation) ==
    CASE operation = Str("COUNT") -> "    'COUNT': "
      [] operation = Str("SUM") -> "    'SUM': "
      [] operation = Str("AVG_P") -> "    'AVG_P': "
      [] operation = Str("WEIGHTED_SUM") -> "    'WEIGHTED_SUM': "
      [] operation = Str("MIN") -> "    'MIN': "
      [] operation = Str("MAX") -> "    'MAX': "

\* estimateJobGas(rows, columns, operation, filterBytes) as the text in
\* code computes it; the literals of the text are integers.
estimateJobGas(code, rows, columns, operation, filterBytes) ==
    LET gas ==
            NumAt(code, "  let gas = ")
            + rows * NumAt(code, "  gas += rows * ")
            + columns * NumAt(code, "  gas += columns * ")
            + (IF HasLine(code, "  gas += (rows * columns) * ")
               THEN (rows * columns) * NumAt(code, "  gas += (rows * columns) * ")
               ELSE 0)
            + filterBytes * NumAt(code, "  gas += filterBytes * ")
            + NumAt(code, OperationKey(operation))
    IN  MathRound(gas * Scale)

(* -------------------------------- main -------------------------------- *)

VARIABLES
    argv,               \* sys.argv
    file,               \* what the file system holds at the path argv[1]
    includeInteraction, \* the include_interaction the fitter is called with
    pc,                 \* the statement of main() that runs next
    df, model, y_pred, coef_df,   \* main's local variables
    printed,            \* the section of standard output printed last
    advisories,         \* how many "below/above target" lines were printed
    png,                \* gas_analysis.png: how often this run wrote it
    ts,                 \* estimateJobGas.ts: writes of this run, and its text
    exitStatus,         \* the exit statuses the process ended with
    handler,            \* the except clause that ran
    started,            \* the functions main() called, in order
    completed           \* those that returned

vars ==
    <<argv, file, includeInteraction, pc, df, model, y_pred, coef_df, printed,
      advisories, png, ts, exitStatus, handler, started, completed>>

\* The fits moved before the per-row analysis.
NextStage_fit_first(stage) ==
    CASE stage = "load" -> "stats"
      [] stage = "stats" -> "fit_total"
      [] stage = "fit_total" -> "fit_pushrow"
      [] stage = "fit_pushrow" -> "per_row"
      [] stage = "per_row" -> "visualize"
      [] stage = "visualize" -> "generate"
      [] stage = "generate" -> "return"

\* The estimator generated before the plots are drawn.
NextStage_generate_first(stage) ==
    CASE stage = "load" -> "stats"
      [] stage = "stats" -> "per_row"
      [] stage = "per_row" -> "fit_total"
      [] stage = "fit_total" -> "fit_pushrow"
      [] stage = "fit_pushrow" -> "generate"
      [] stage = "generate" -> "visualize"
      [] stage = "visualize" -> "return"

\* The order of the statements in the try block of main().
NextStage(stage) ==
    CASE stage = "load" -> "stats"
      [] stage = "stats" -> "per_row"
      [] stage = "per_row" -> "fit_total"
      [] stage = "fit_total" -> "fit_pushrow"
      [] stage = "fit_pushrow" -> "visualize"
      [] stage = "visualize" -> "generate"
      [] stage = "generate" -> "return"

\* The FileNotFoundError clause without its sys.exit(1): main() returns.
ExceptHandler_fnf_returns(exc) ==
    IF exc = "FileNotFoundError"
    THEN [clause |-> "FileNotFoundError", section |-> "Error: File not found", status |-> 0]
    ELSE [clause |-> "Exception", section |-> "Error: traceback", status |-> 1]

\* The generic clause without its sys.exit(1): main() returns.
ExceptHandler_exception_returns(exc) ==
    IF exc = "FileNotFoundError"
    THEN [clause |-> "FileNotFoundError", section |-> "Error: File not found", status |-> 1]
    ELSE [clause |-> "Exception", section |-> "Error: traceback", status |-> 0]

\* The except clauses of main(): which one catches exc, what it prints and
\* the status it exits with.
ExceptHandler(exc) ==
    IF exc = "FileNotFoundError"
    THEN [clause |-> "FileNotFoundError", section |-> "Error: File not found", status |-> 1]
    ELSE [clause |-> "Exception", section |-> "Error: traceback", status |-> 1]

Advisories(p) == (IF p.r2 = "below" THEN 1 ELSE 0) + (IF p.mape = "above" THEN 1 ELSE 0)

\* One statement of the try block: the call of fn ended as r.
Called(fn, r) ==
    /\ started' = Append(started, fn)
    /\ advisories' = advisories + Advisories(r.printed)
    /\ IF r.raised = "none"
       THEN /\ completed' = Append(completed, fn)
            /\ pc' = NextStage(pc)
            /\ printed' = r.printed
            /\ UNCHANGED <<exitStatus, handler>>
       ELSE /\ completed' = completed
            /\ pc' = "exit"
            /\ printed' = [section |-> ExceptHandler(r.raised).section, r2 |-> "", mape |-> ""]
            /\ exitStatus' = Append(exitStatus, ExceptHandler(r.raised).status)
            /\ handler' = ExceptHandler(r.raised).clause

InitWith(files, flags) ==
    /\ argv \in {<<"analyze_gas_results.py">>, <<"analyze_gas_results.py", "results.csv">>}
    /\ file \in files
    /\ includeInteraction \in flags
    /\ pc = "args"
    /\ df = NoFrame
    /\ model = NoModel
    /\ y_pred = <<>>
    /\ coef_df = <<>>
    /\ printed = NoPrint
    /\ advisories = 0
    /\ png = [writes |-> 0]
    /\ ts = [writes |-> 0, text |-> <<>>]
    /\ exitStatus = <<>>
    /\ handler = "none"
    /\ started = <<>>
    /\ completed = <<>>

\* if len(sys.argv) < 2: usage, sys.exit(1)
CheckArguments ==
    /\ pc = "args"
    /\ IF Len(argv) < 2
       THEN /\ printed' = [section |-> "Usage", r2 |-> "", mape |-> ""]
            /\ exitStatus' = Append(exitStatus, 1)
            /\ pc' = "exit"
       ELSE /\ pc' = "load"
            /\ UNCHANGED <<printed, exitStatus>>
    /\ UNCHANGED <<argv, file, includeInteraction, df, model, y_pred, coef_df,
                   advisories, png, ts, handler, started, completed>>

\* In each statement below, r is what the call returned.
LoadData ==
    /\ pc = "load"
    /\ \E r \in {load_and_prepare_data(file)} :
           /\ Called("load_and_prepare_data", r)
           /\ df' = IF r.raised = "none" THEN r.df ELSE df
    /\ UNCHANGED <<argv, file, includeInteraction, model, y_pred, coef_df, png, ts>>

BasicStatistics ==
    /\ pc = "stats"
    /\ \E r \in {analyze_basic_statistics(df)} :
           Called("analyze_basic_statistics", r)
    /\ UNCHANGED <<argv, file, includeInteraction, df, model, y_pred, coef_df, png, ts>>

PerRowCosts ==
    /\ pc = "per_row"
    /\ \E r \in {analyze_per_row_costs(df)} :
           Called("analyze_per_row_costs", r)
    /\ UNCHANGED <<argv, file, includeInteraction, df, model, y_pred, coef_df, png, ts>>

\* model, X, y, y_pred, coef_df = build_regression_model(df, 'TotalGas')
FitTotalGas ==
    /\ pc = "fit_total"
    /\ \E lib \in LibOutcomes(df, includeInteraction) :
         \E r \in {build_regression_model(df, "TotalGas", includeInteraction, lib)} :
             /\ Called("build_regression_model", r)
             /\ model' = IF r.raised = "none" THEN r.model ELSE model
             /\ y_pred' = IF r.raised = "none" THEN r.y_pred ELSE y_pred
             /\ coef_df' = IF r.raised = "none" THEN r.coef_df ELSE coef_df
    /\ UNCHANGED <<argv, file, includeInteraction, df, png, ts>>

\* build_regression_model(df, 'PushRowTotal'): the result is dropped.
FitPushRowTotal ==
    /\ pc = "fit_pushrow"
    /\ \E lib \in DroppedFitOutcomes(df, includeInteraction) :
         \E r \in {build_regression_model(df, "PushRowTotal", includeInteraction, lib)} :
             Called("build_regression_model", r)
    /\ UNCHANGED <<argv, file, includeInteraction, df, model, y_pred, coef_df, png, ts>>

Visualize ==
    /\ pc = "visualize"
    /\ \E io \in IoOutcomes :
         \E r \in {visualize_results(df, y_pred, coef_df, io)} :
             /\ Called("visualize_results", r)
             /\ png' = IF r.wrote THEN [writes |-> png.writes + 1] ELSE png
    /\ UNCHANGED <<argv, file, includeInteraction, df, model, y_pred, coef_df, ts>>

GenerateCode ==
    /\ pc = "generate"
    /\ \E io \in IoOutcomes :
         \E r \in {generate_estimator_code(model, coef_df, io)} :
             /\ Called("generate_estimator_code", r)
             /\ ts' = IF r.wrote THEN [writes |-> ts.writes + 1, text |-> r.code] ELSE ts
    /\ UNCHANGED <<argv, file, includeInteraction, df, model, y_pred, coef_df, png>>

\* The try block ran to its end: "Analysis Complete!", and main() returns.
Return0 ==
    /\ pc = "return"
    /\ printed' = [section |-> "Analysis Complete!", r2 |-> "", mape |-> ""]
    /\ exitStatus' = Append(exitStatus, 0)
    /\ pc' = "exit"
    /\ UNCHANGED <<argv, file, includeInteraction, df, model, y_pred, coef_df,
                   advisories, png, ts, handler, started, completed>>

Next ==
    \/ CheckArguments
    \/ LoadData
    \/ BasicStatistics
    \/ PerRowCosts
    \/ FitTotalGas
    \/ FitPushRowTotal
    \/ Visualize
    \/ GenerateCode
    \/ Return0

PipelineFiles == CsvFiles(Range(OperationLabels), PipelineFilterLabels)

\* main() as the script runs it: the fitter's default include_interaction.
Init == InitWith(PipelineFiles, {TRUE})
Spec == Init /\ [][Next]_vars

\* The same run with the fitter called with either include_interaction.
InitFitter == InitWith(PipelineFiles, BOOLEAN)
SpecFitter == InitFitter /\ [][Next]_vars

\* The loader alone, on tables over every FilterComplexity label.
InitLoader == InitWith(CsvFiles({Str("COUNT"), Str("SUM")}, LoaderFilterLabels), {TRUE})
NextLoader == CheckArguments \/ LoadData
SpecLoader == InitLoader /\ [][NextLoader]_vars

(* ============================ properties ============================== *)

IsPrefix(s, t) == Len(s) <= Len(t) /\ SubSeq(t, 1, Len(s)) = s

\* The calls of a run that completes, stage by stage: Loader, Descriptive
\* Reporter (two reports), Regression Fitter (two fits), Visualizer, Code
\* Generator.
ExpectedCalls ==
    <<"load_and_prepare_data", "analyze_basic_statistics", "analyze_per_row_costs",
      "build_regression_model", "build_regression_model", "visualize_results",
      "generate_estimator_code">>

Exited == pc = "exit"

\* C1: a run given the path of a file that does not exist writes neither
\* output file at any point, stops after the loader, and ends with exit
\* status 1.
C1_NonexistentFileExitsOneWithoutOutput ==
    (Len(argv) >= 2 /\ ~file.exists) =>
        /\ png.writes = 0
        /\ ts.writes = 0
        /\ pc \in {"args", "load", "exit"}
        /\ (Exited => exitStatus = <<1>>)
        /\ (~Exited => ENABLED Next)

C1_Witness ==
    /\ Exited
    /\ Len(argv) >= 2
    /\ ~file.exists
    /\ handler = "FileNotFoundError"
    /\ started = <<"load_and_prepare_data">>

\* C2: a run ends with exactly one exit status; it is 0 exactly when all
\* seven calls of the pipeline returned; it is 1 when the argument is
\* missing (usage printed, nothing called), when the file is not found, and
\* when a call raised; after the call that raised nothing else is called.
C2_ExitStatusReportsOutcome ==
    /\ (~Exited => exitStatus = <<>> /\ ENABLED Next)
    /\ (Exited =>
          /\ ~ENABLED Next
          /\ exitStatus \in {<<0>>, <<1>>}
          /\ (exitStatus = <<0>> <=> completed = ExpectedCalls)
          /\ (Len(argv) < 2 =>
                exitStatus = <<1>> /\ printed.section = "Usage" /\ started = <<>>)
          /\ (Len(argv) >= 2 /\ ~file.exists => exitStatus = <<1>>)
          /\ (started # completed =>
                /\ exitStatus = <<1>>
                /\ handler # "none"
                /\ started = Append(completed, started[Len(started)])))

C2_Witness ==
    /\ Exited
    /\ exitStatus = <<1>>
    /\ handler = "Exception"
    /\ started[Len(started)] = "visualize_results"

(* The formula of the TotalGas fit held in model, in 1/Scale units. *)
FittedCoef(f) == IF f \in DOMAIN model.coef THEN model.coef[f] ELSE 0

FittedFormula(rows, columns, operation, filterBytes) ==
    model.intercept
    + rows * FittedCoef(Str("Rows"))
    + columns * FittedCoef(Str("Columns"))
    + rows * columns * FittedCoef(Str("Rows_x_Columns"))
    + filterBytes * FittedCoef(Str("FilterBytes"))
    + (IF operation = Str("COUNT") THEN 0 ELSE FittedCoef(DummyName(operation)))

\* C3: for all rows, columns, filterBytes and each of the six operations,
\* the emitted function returns the rounding of the fitted TotalGas formula
\* computed with the fitted intercept and coefficients.
C3_EmittedFunctionEqualsFittedFormula ==
    ts.writes > 0 =>
        \A rows \in 0..MaxArg, columns \in 0..MaxArg, filterBytes \in 0..MaxArg,
           k \in 1..Len(KnownOperations) :
            estimateJobGas(ts.text, rows, columns, KnownOperations[k], filterBytes)
                = MathRound(FittedFormula(rows, columns, KnownOperations[k], filterBytes))

InteractionLine == "  gas += (rows * columns) * "

\* The coefficient table of the same data fitted with the other choice of
\* include_interaction, the interaction coefficient being c.
OtherVariantTable(c) ==
    LET X == FeatureColumns(df, ~includeInteraction)
    IN  CoefTable(X, [f \in Range(X) |->
                        IF f \in DOMAIN model.coef THEN model.coef[f] ELSE c])

\* C4: the emitted text has the interaction line exactly when the model was
\* fitted with include_interaction, and it differs from the text rendered
\* for the same data fitted with the other choice.
C4_TemplateFollowsInteraction ==
    ts.writes > 0 =>
        /\ HasLine(ts.text, InteractionLine) <=> includeInteraction
        /\ \A c \in CoefVals : ts.text # EstimatorCode(model, OtherVariantTable(c))

C4_Witness ==
    /\ ts.writes > 0
    /\ ~includeInteraction
    /\ ~HasLine(ts.text, InteractionLine)

\* The keys of the operationCosts table of the emitted text.
TableKeys(code) ==
    LET open == CHOOSE i \in 1..Len(code) : code[i].text = "  const operationCosts = {"
        close == CHOOSE i \in 1..Len(code) : code[i].text = "  };"
    IN  {code[i].text : i \in (open + 1)..(close - 1)}

\* C5: the operationCosts table has exactly the six keys; COUNT is 0; each
\* other key carries (as the template formats it) the fitted coefficient of
\* its own Op_<name> indicator, and 0 when that operation is not in the
\* data, so that no indicator of another label is emitted.
C5_OperationCostsAreTheSixFittedOffsets ==
    ts.writes > 0 =>
        /\ TableKeys(ts.text) = {OperationKey(KnownOperations[k]) : k \in 1..Len(KnownOperations)}
        /\ NumAt(ts.text, OperationKey(Str("COUNT"))) = 0
        /\ \A k \in 2..Len(KnownOperations) :
             NumAt(ts.text, OperationKey(KnownOperations[k]))
                = IF KnownOperations[k] \in OperationsOf(df)
                  THEN Fmt0(model.coef[DummyName(KnownOperations[k])])
                  ELSE 0

\* C6: once loaded, every record keeps its columns and has the FilterBytes
\* of its own FilterComplexity: none 0, simple 7, medium 15, complex 30,
\* any other label missing; an unknown label does not make the loader fail.
C6_FilterBytesFollowsComplexity ==
    (started # <<>> /\ file.exists /\ file.parses /\ "FilterComplexity" \in file.columns) =>
        /\ Len(completed) >= 1
        /\ (Len(completed) = 1 => handler = "none" /\ pc = "stats")
        /\ Len(df.rows) = Len(file.rows)
        /\ \A i \in 1..Len(file.rows) :
             /\ df.rows[i].Operation = file.rows[i].Operation
             /\ df.rows[i].FilterComplexity = file.rows[i].FilterComplexity
             /\ df.rows[i].Rows = file.rows[i].Rows
             /\ df.rows[i].Columns = file.rows[i].Columns
             /\ df.rows[i].FilterBytes =
                  CASE file.rows[i].FilterComplexity = "none" -> <<0>>
                    [] file.rows[i].FilterComplexity = "simple" -> <<7>>
                    [] file.rows[i].FilterComplexity = "medium" -> <<15>>
                    [] file.rows[i].FilterComplexity = "complex" -> <<30>>
                    [] OTHER -> <<>>

C6_Witness ==
    /\ pc = "stats"
    /\ \E i, j \in 1..Len(df.rows) :
         /\ df.rows[i].FilterComplexity = "bogus" /\ df.rows[i].FilterBytes = <<>>
         /\ df.rows[j].FilterComplexity = "medium" /\ df.rows[j].FilterBytes = <<15>>

\* The data let a model be fitted: a COUNT record, and no missing value.
DataFit == Str("COUNT") \in OperationsOf(df) /\ ~HasNaN(df)

FitCompleted == Len(completed) >= 4

\* C7: the comparison with the targets only prints. A fit never fails on
\* data that can be fitted, whatever the metrics; the model, predictions
\* and coefficient table main() holds are those of the fitted values; the
\* run goes on to the plots and the estimator.
C7_TargetsOnlyPrint ==
    /\ (started # completed /\ started[Len(started)] = "build_regression_model") => ~DataFit
    /\ (printed.section = "Building Regression Model" /\ ~Exited) =>
          /\ printed.r2 \in {"meets", "below"}
          /\ printed.mape \in {"meets", "above"}
          /\ pc \in {"fit_pushrow", "visualize"}
    /\ FitCompleted =>
          /\ model.fitted
          /\ DOMAIN model.coef = Range(FeatureColumns(df, includeInteraction))
          /\ coef_df = CoefTable(FeatureColumns(df, includeInteraction), model.coef)
          /\ y_pred = Predict(model.intercept, model.coef,
                              FeatureColumns(df, includeInteraction), df)

\* Both comparisons failed in both fits, and the run ended with status 0
\* and both files written.
C7_Witness ==
    /\ Exited
    /\ exitStatus = <<0>>
    /\ advisories = 4
    /\ png.writes = 1
    /\ ts.writes = 1

\* C8: the calls are made in the fixed order of the stages, each after all
\* earlier ones returned, none twice out of turn; a call that raised is
\* the last one.
C8_StagesRunInOrder ==
    /\ IsPrefix(started, ExpectedCalls)
    /\ IsPrefix(completed, started)
    /\ Len(started) <= Len(completed) + 1
    /\ (started # completed => Exited)

C8_Witness ==
    /\ started = ExpectedCalls
    /\ completed = ExpectedCalls

\* C9: each output file is written at most once, estimateJobGas.ts only
\* after gas_analysis.png; exit status 0 means both were written, exit
\* status 1 means estimateJobGas.ts was not.
C9_OutputFilesWrittenOnceInOrder ==
    /\ png.writes <= 1
    /\ ts.writes <= 1
    /\ (ts.writes = 1 => png.writes = 1)
    /\ ((Exited /\ exitStatus = <<0>>) => (png.writes = 1 /\ ts.writes = 1))
    /\ ((Exited /\ exitStatus = <<1>>) => ts.writes = 0)

\* The run wrote gas_analysis.png alone and ended with status 1.
C9_Witness ==
    /\ Exited
    /\ exitStatus = <<1>>
    /\ png.writes = 1
    /\ ts.writes = 0

TableLoaded == Len(completed) >= 1

\* C10: with a loaded table that has no COUNT record no fit is started and
\* no file written; the run ends with status 1; with every column present
\* the call that raises is analyze_per_row_costs; and the fitter called on
\* that table would raise as well.
C10_NoCountFailsBeforeFit ==
    (TableLoaded /\ Str("COUNT") \notin OperationsOf(df)) =>
        /\ "build_regression_model" \notin Range(started)
        /\ png.writes = 0
        /\ ts.writes = 0
        /\ (Exited => exitStatus = <<1>> /\ handler = "Exception")
        /\ ((Exited /\ AllColumns \subseteq df.columns) =>
              /\ started[Len(started)] = "analyze_per_row_costs"
              /\ Len(completed) = 2)
        /\ (~Exited => ENABLED Next)
        /\ \A lib \in LibOutcomes(df, includeInteraction) :
             build_regression_model(df, "TotalGas", includeInteraction, lib).raised = "KeyError"

C10_Witness ==
    /\ Exited
    /\ Len(df.rows) > 0
    /\ Str("COUNT") \notin OperationsOf(df)
    /\ started[Len(started)] = "analyze_per_row_costs"

====
